---- MODULE Spec2Model ----
(***************************************************************************)
(* Dialogue state trackers of deeppavlov/models/go_bot/tracker.py:         *)
(* DefaultTracker, FeaturizedTracker, DialogueStateTracker and the         *)
(* MultipleUserStateTracker registry.                                      *)
(*                                                                         *)
(* Objects live in two heaps (trackers, dsts) and are referred to by their *)
(* index, so that two references to one object are visible as such.        *)
(* A Python dict is a function whose DOMAIN is its key set; a numpy vector *)
(* is a sequence of integers (0 and 1, and the block sums); None is the    *)
(* string "None".                                                          *)
(***************************************************************************)
EXTENDS Integers, Sequences, FiniteSets, TLC

VARIABLES
    trackers,         \* heap of DefaultTracker / FeaturizedTracker objects
    dsts,             \* heap of DialogueStateTracker objects
    ids_to_trackers,  \* MultipleUserStateTracker._ids_to_trackers
    call,             \* the call that ended last: receiver and method
    ret,              \* what that call returned, or the error it raised
    requests          \* position and locals of each serving request

vars == <<trackers, dsts, ids_to_trackers, call, ret, requests>>

---------------------------------------------------------------------------
(* Bounds of the model *)

\* number of configured slot names (len(slot_names))
K == 2
\* longest update (entries of a list, items of a dict) one call is given
MaxIn == 2
\* longest History an update may produce
MaxHist == 3
\* DialogueStateTracker's n_actions and hidden_size
NActions == 2
HiddenSize == 1
\* DialogueStateTracker objects the registry may build
MaxDsts == 2
\* longest History of a session's tracker in the registry
MaxSessionHist == 2
\* concurrent requests
NumRequests == 2

AllNames == <<"a", "b", "c", "d", "e">>
\* the configured list of known slots, and one name outside it
slot_names == SubSeq(AllNames, 1, K)
Names == {AllNames[i] : i \in 1..(K + 1)}
Values == {"x", "y"}

None == "None"

\* (name, value) entries, and the two shapes of update_state's argument:
\* a list (names may repeat) or a dict (items() in insertion order, keys distinct)
Entries == Names \X Values
SeqsUpTo(S, n) == UNION {[1..m -> S] : m \in 0..n}
Lists == {[type |-> "list", items |-> s] : s \in SeqsUpTo(Entries, MaxIn)}
Dicts ==
    {[type |-> "dict", items |-> s] :
        s \in {q \in SeqsUpTo(Entries, MaxIn) :
                  \A i, j \in 1..Len(q) : q[i][1] = q[j][1] => i = j}}
Slots == Lists \cup Dicts

---------------------------------------------------------------------------
(* Python and numpy helpers *)

\* np.zeros(n)
zeros(n) == [i \in 1..n |-> 0]

\* np.sum(v)
RECURSIVE np_sum(_)
np_sum(v) == IF v = <<>> THEN 0 ELSE v[1] + np_sum(Tail(v))

\* d[k] = v on a dict
DictPut(d, k, v) == [x \in (DOMAIN d) \cup {k} |-> IF x = k THEN v ELSE d[x]]

\* the empty dict {}
EmptyDict == <<>>

---------------------------------------------------------------------------
(* DefaultTracker *)

\* DefaultTracker.__init__ (FeaturizedTracker inherits it)
DefaultTracker_init(cls) ==
    [cls |-> cls, history |-> <<>>, curr_feats |-> zeros(Len(slot_names))]

state_size(self) == Len(slot_names)

\* a filter that lets every entry through
_filter_nothing(slots) == slots

\* filter(lambda s: s[0] in self.slot_names, slots)
_filter(slots) ==
    SelectSeq(slots, LAMBDA s : \E i \in 1..Len(slot_names) : slot_names[i] = s[1])

\* get_state: walk the history in order, lasts[slot] = value
RECURSIVE get_state_loop(_, _, _)
get_state_loop(history, i, lasts) ==
    IF i > Len(history) THEN lasts
    ELSE get_state_loop(history, i + 1, DictPut(lasts, history[i][1], history[i][2]))

\* mutant of get_state: a key keeps the first value written to it
RECURSIVE get_state_first_loop(_, _, _)
get_state_first_loop(history, i, lasts) ==
    IF i > Len(history) THEN lasts
    ELSE get_state_first_loop(history, i + 1,
            IF history[i][1] \in DOMAIN lasts THEN lasts
            ELSE DictPut(lasts, history[i][1], history[i][2]))

get_state_first(self) == get_state_first_loop(self.history, 1, EmptyDict)

get_state(self) == get_state_loop(self.history, 1, EmptyDict)

\* mutant of _binary_features: feats indexed from the wrong end
_binary_features_reversed(self) ==
    LET lasts == get_state(self)
    IN  [i \in 1..Len(slot_names) |->
            IF slot_names[Len(slot_names) + 1 - i] \in DOMAIN lasts THEN 1 ELSE 0]

_binary_features(self) ==
    LET lasts == get_state(self)
    IN  [i \in 1..state_size(self) |->
            IF slot_names[i] \in DOMAIN lasts THEN 1 ELSE 0]

\* an update that puts the new entries in front of the History
DefaultTracker_update_state_prepend(self, slots) ==
    LET self1 == [self EXCEPT !.history = _filter(slots.items) \o @]
    IN  [self1 EXCEPT !.curr_feats = _binary_features(self1)]

DefaultTracker_update_state(self, slots) ==
    LET extended ==
            IF slots.type = "list" THEN self.history \o _filter(slots.items)
            ELSE IF slots.type = "dict" THEN self.history \o _filter(slots.items)
            ELSE self.history
        self1 == [self EXCEPT !.history = extended]
    IN  [self1 EXCEPT !.curr_feats = _binary_features(self1)]

reset_state(self) ==
    [self EXCEPT !.history = <<>>, !.curr_feats = zeros(state_size(self))]

get_features(self) == self.curr_feats

---------------------------------------------------------------------------
(* FeaturizedTracker *)

_diff_features(self, state) ==
    LET curr_state == get_state(self)
    IN  [i \in 1..state_size(self) |->
            IF /\ slot_names[i] \in DOMAIN curr_state
               /\ slot_names[i] \in DOMAIN state
               /\ curr_state[slot_names[i]] # state[slot_names[i]]
            THEN 1 ELSE 0]

_new_features(self, state) ==
    LET curr_state == get_state(self)
    IN  [i \in 1..state_size(self) |->
            IF /\ slot_names[i] \in DOMAIN curr_state
               /\ slot_names[i] \notin DOMAIN state
            THEN 1 ELSE 0]

\* mutant of prev_state: the reference state is read before the update
prev_state_before(before, after) == get_state(before)

\* the reference state of FeaturizedTracker.update_state: self.get_state(),
\* read after super().update_state(slots) has run
prev_state(before, after) == get_state(after)

\* a feature vector that carries the three sums in front of the blocks
FeaturizedTracker_update_state_sums_first(self, slots) ==
    LET self1 == DefaultTracker_update_state(self, slots)
        bin_feats == self1.curr_feats
        reference == prev_state(self, self1)
        diff_feats == _diff_features(self1, reference)
        new_feats == _new_features(self1, reference)
    IN  [self1 EXCEPT !.curr_feats =
            <<np_sum(bin_feats), np_sum(diff_feats), np_sum(new_feats)>>
            \o bin_feats \o diff_feats \o new_feats]

FeaturizedTracker_update_state(self, slots) ==
    LET self1 == DefaultTracker_update_state(self, slots)
        bin_feats == self1.curr_feats
        reference == prev_state(self, self1)
        diff_feats == _diff_features(self1, reference)
        new_feats == _new_features(self1, reference)
    IN  [self1 EXCEPT !.curr_feats =
            bin_feats \o diff_feats \o new_feats
            \o <<np_sum(bin_feats), np_sum(diff_feats), np_sum(new_feats)>>]

\* an update that keeps only the entries of its argument
update_state_replacing(self, slots) ==
    LET self1 == [self EXCEPT !.history = _filter(slots.items)]
    IN  [self1 EXCEPT !.curr_feats = _binary_features(self1)]

\* method resolution on the object's class
update_state(self, slots) ==
    IF self.cls = "FeaturizedTracker"
    THEN FeaturizedTracker_update_state(self, slots)
    ELSE DefaultTracker_update_state(self, slots)

num_features(self) ==
    IF self.cls = "FeaturizedTracker"
    THEN state_size(self) * 3 + 3
    ELSE state_size(self)

---------------------------------------------------------------------------
(* DialogueStateTracker *)

\* DialogueStateTracker.__init__: tracker is a reference (a heap index)
DialogueStateTracker_init(tracker, n_actions, hidden_size) ==
    [tracker |-> tracker,
     db_result |-> None,
     current_db_result |-> None,
     n_actions |-> n_actions,
     hidden_size |-> hidden_size,
     prev_action |-> zeros(n_actions),
     network_state |-> << <<zeros(hidden_size)>>, <<zeros(hidden_size)>> >>]

---------------------------------------------------------------------------
(* Calls and their results *)

TrackerRef(t) == <<"tracker", t>>
DstRef(d) == <<"dst", d>>
RegistryRef == <<"registry", 0>>

Call(self, method) == [self |-> self, method |-> method]

RetRef(ref) == [tag |-> "ref", val |-> ref]
RetNone == [tag |-> "none", val |-> None]
RetDict(d) == [tag |-> "dict", val |-> d]
RetArray(v) == [tag |-> "array", val |-> v]
RetBool(b) == [tag |-> "bool", val |-> b]

\* the History an update_state call leaves stays within the model's bound
WithinHist(self, slots) == Len(self.history) + Len(_filter(slots.items)) <= MaxHist

---------------------------------------------------------------------------
(* Methods called on a DefaultTracker / FeaturizedTracker object *)

\* t.update_state(slots); both classes end in "return self"
Tracker_update_state(t, slots) ==
    /\ WithinHist(trackers[t], slots)
    /\ trackers' = [trackers EXCEPT ![t] = update_state(@, slots)]
    /\ call' = Call(TrackerRef(t), "update_state")
    /\ ret' = RetRef(TrackerRef(t))
    /\ UNCHANGED <<dsts, ids_to_trackers, requests>>

\* t.reset_state(); no return statement
Tracker_reset_state(t) ==
    /\ trackers' = [trackers EXCEPT ![t] = reset_state(@)]
    /\ call' = Call(TrackerRef(t), "reset_state")
    /\ ret' = RetNone
    /\ UNCHANGED <<dsts, ids_to_trackers, requests>>

\* a get_state that hands out the state and drops the last History entry
Tracker_get_state_draining(t) ==
    /\ call' = Call(TrackerRef(t), "get_state")
    /\ ret' = RetDict(get_state(trackers[t]))
    /\ trackers' = [trackers EXCEPT ![t].history =
            IF @ = <<>> THEN @ ELSE SubSeq(@, 1, Len(@) - 1)]
    /\ UNCHANGED <<dsts, ids_to_trackers, requests>>

\* t.get_state()
Tracker_get_state(t) ==
    /\ call' = Call(TrackerRef(t), "get_state")
    /\ ret' = RetDict(get_state(trackers[t]))
    /\ UNCHANGED <<trackers, dsts, ids_to_trackers, requests>>

\* t.get_features()
Tracker_get_features(t) ==
    /\ call' = Call(TrackerRef(t), "get_features")
    /\ ret' = RetArray(get_features(trackers[t]))
    /\ UNCHANGED <<trackers, dsts, ids_to_trackers, requests>>

---------------------------------------------------------------------------
(* Methods called on a DialogueStateTracker object *)

\* d.update_state(slots): self.tracker.update_state(slots), and no return
Dst_update_state(d, slots) ==
    /\ WithinHist(trackers[dsts[d].tracker], slots)
    /\ trackers' = [trackers EXCEPT ![dsts[d].tracker] = update_state(@, slots)]
    /\ call' = Call(DstRef(d), "update_state")
    /\ ret' = RetNone
    /\ UNCHANGED <<dsts, ids_to_trackers, requests>>

\* a reset that clears the inner tracker and the database results only
Dst_reset_state_keeps_network(d) ==
    /\ trackers' = [trackers EXCEPT ![dsts[d].tracker] = reset_state(@)]
    /\ dsts' = [dsts EXCEPT ![d] =
            [@ EXCEPT !.db_result = None, !.current_db_result = None]]
    /\ call' = Call(DstRef(d), "reset_state")
    /\ ret' = RetNone
    /\ UNCHANGED <<ids_to_trackers, requests>>

\* d.reset_state()
Dst_reset_state(d) ==
    /\ trackers' = [trackers EXCEPT ![dsts[d].tracker] = reset_state(@)]
    /\ dsts' = [dsts EXCEPT ![d] =
            [@ EXCEPT !.db_result = None,
                      !.current_db_result = None,
                      !.prev_action = zeros(dsts[d].n_actions),
                      !.network_state =
                          << <<zeros(dsts[d].hidden_size)>>,
                             <<zeros(dsts[d].hidden_size)>> >>]]
    /\ call' = Call(DstRef(d), "reset_state")
    /\ ret' = RetNone
    /\ UNCHANGED <<ids_to_trackers, requests>>

\* d.get_state()
Dst_get_state(d) ==
    /\ call' = Call(DstRef(d), "get_state")
    /\ ret' = RetDict(get_state(trackers[dsts[d].tracker]))
    /\ UNCHANGED <<trackers, dsts, ids_to_trackers, requests>>

\* d.get_features()
Dst_get_features(d) ==
    /\ call' = Call(DstRef(d), "get_features")
    /\ ret' = RetArray(get_features(trackers[dsts[d].tracker]))
    /\ UNCHANGED <<trackers, dsts, ids_to_trackers, requests>>

---------------------------------------------------------------------------
(* One tracker of either class, wrapped by one DialogueStateTracker *)

TrackerClasses == {"DefaultTracker", "FeaturizedTracker"}

Init ==
    /\ \E cls \in TrackerClasses : trackers = <<DefaultTracker_init(cls)>>
    /\ dsts = <<DialogueStateTracker_init(1, NActions, HiddenSize)>>
    /\ ids_to_trackers = EmptyDict
    /\ call = Call(DstRef(1), "__init__")
    /\ ret = RetNone
    /\ requests = <<>>

Next ==
    \/ \E t \in DOMAIN trackers, slots \in Slots : Tracker_update_state(t, slots)
    \/ \E t \in DOMAIN trackers : Tracker_reset_state(t)
    \/ \E t \in DOMAIN trackers : Tracker_get_state(t)
    \/ \E t \in DOMAIN trackers : Tracker_get_features(t)

Spec == Init /\ [][Next]_vars

\* the same objects, called through the wrapper as well
NextDst ==
    \/ \E t \in DOMAIN trackers, slots \in Slots : Tracker_update_state(t, slots)
    \/ \E d \in DOMAIN dsts, slots \in Slots : Dst_update_state(d, slots)
    \/ \E d \in DOMAIN dsts : Dst_reset_state(d)
    \/ \E d \in DOMAIN dsts : Dst_get_state(d)
    \/ \E d \in DOMAIN dsts : Dst_get_features(d)

SpecDst == Init /\ [][NextDst]_vars

---------------------------------------------------------------------------
(* MultipleUserStateTracker *)

Users == {"u1", "u2"}

\* the slot updates a session's turn may bring: one value for the first slot
SessionSlots == {[type |-> "list", items |-> <<<<slot_names[1], v>>>>] : v \in Values}

\* the class of the inner tracker a caller builds for a new session
SessionTrackerClass == "FeaturizedTracker"

\* mutant of ids_to_trackers_setitem: an entry already there is kept
ids_to_trackers_setdefault(map, user_id, tracker) ==
    IF user_id \in DOMAIN map THEN map ELSE DictPut(map, user_id, tracker)

\* self._ids_to_trackers[user_id] = <the new tracker>
ids_to_trackers_setitem(map, user_id, tracker) == DictPut(map, user_id, tracker)

\* user_id in self._ids_to_trackers
check_new_user(user_id) == user_id \in DOMAIN ids_to_trackers

\* init_new_tracker(user_id, **init_params) with the default tracker_class:
\* a new DialogueStateTracker is built from init_params and stored under user_id
init_new_tracker(user_id, init_params) ==
    /\ Len(dsts) < MaxDsts
    /\ dsts' = Append(dsts, DialogueStateTracker_init(init_params.tracker,
                                init_params.n_actions, init_params.hidden_size))
    /\ ids_to_trackers' =
          ids_to_trackers_setitem(ids_to_trackers, user_id, Len(dsts) + 1)

InitParams(t) == [tracker |-> t, n_actions |-> NActions, hidden_size |-> HiddenSize]

\* registry.check_new_user(user_id)
Registry_check_new_user(user_id) ==
    /\ call' = Call(RegistryRef, "check_new_user")
    /\ ret' = RetBool(check_new_user(user_id))
    /\ UNCHANGED <<trackers, dsts, ids_to_trackers, requests>>

\* registry.init_new_tracker(user_id, tracker=SessionTrackerClass(slot_names), ...):
\* the caller builds a new inner tracker for the session
Registry_init_new_tracker_fresh(user_id) ==
    /\ trackers' = Append(trackers, DefaultTracker_init(SessionTrackerClass))
    /\ init_new_tracker(user_id, InitParams(Len(trackers) + 1))
    /\ call' = Call(RegistryRef, "init_new_tracker")
    /\ ret' = RetNone
    /\ UNCHANGED requests

\* registry.init_new_tracker(user_id, **init_params) with a parameter bundle
\* used before: its tracker is an object some session already wraps
Registry_init_new_tracker_same(user_id, t) ==
    /\ UNCHANGED trackers
    /\ init_new_tracker(user_id, InitParams(t))
    /\ call' = Call(RegistryRef, "init_new_tracker")
    /\ ret' = RetNone
    /\ UNCHANGED requests

\* a turn of session user_id: the tracker stored under it takes an update
Session_update_state(user_id, slots) ==
    /\ check_new_user(user_id)
    /\ Len(trackers[dsts[ids_to_trackers[user_id]].tracker].history) < MaxSessionHist
    /\ Dst_update_state(ids_to_trackers[user_id], slots)

\* the tracker stored under user_id is reset
Session_reset_state(user_id) ==
    /\ check_new_user(user_id)
    /\ Dst_reset_state(ids_to_trackers[user_id])

InitRegistry ==
    /\ trackers = <<>>
    /\ dsts = <<>>
    /\ ids_to_trackers = EmptyDict
    /\ call = Call(RegistryRef, "__init__")
    /\ ret = RetNone
    /\ requests = <<>>

NextRegistry ==
    \/ \E u \in Users : Registry_check_new_user(u)
    \/ \E u \in Users : Registry_init_new_tracker_fresh(u)
    \/ \E u \in Users, t \in DOMAIN trackers : Registry_init_new_tracker_same(u, t)
    \/ \E u \in Users, slots \in SessionSlots : Session_update_state(u, slots)
    \/ \E u \in Users : Session_reset_state(u)

SpecRegistry == InitRegistry /\ [][NextRegistry]_vars

---------------------------------------------------------------------------
(* Concurrent requests: each checks for its session, creates it when it    *)
(* saw none, then applies its turn to the tracker stored under its id.     *)
(* The steps of one request interleave with the steps of the others.       *)

Requests == 1..NumRequests

Request(user_id) ==
    [user_id |-> user_id, pc |-> "check", seen |-> FALSE, created |-> 0, updated |-> 0]

\* seen = registry.check_new_user(user_id)
Request_check(r) ==
    /\ requests[r].pc = "check"
    /\ requests' = [requests EXCEPT
            ![r].seen = check_new_user(requests[r].user_id),
            ![r].pc = IF check_new_user(requests[r].user_id) THEN "turn" ELSE "create"]
    /\ call' = Call(RegistryRef, "check_new_user")
    /\ ret' = RetBool(check_new_user(requests[r].user_id))
    /\ UNCHANGED <<trackers, dsts, ids_to_trackers>>

\* if not seen: registry.init_new_tracker(user_id, tracker=<a new tracker>, ...)
Request_create(r) ==
    /\ requests[r].pc = "create"
    /\ trackers' = Append(trackers, DefaultTracker_init(SessionTrackerClass))
    /\ init_new_tracker(requests[r].user_id, InitParams(Len(trackers) + 1))
    /\ requests' = [requests EXCEPT ![r].created = Len(dsts) + 1, ![r].pc = "turn"]
    /\ call' = Call(RegistryRef, "init_new_tracker")
    /\ ret' = RetNone

\* the tracker stored under user_id takes the request's slots
Request_turn(r, slots) ==
    /\ requests[r].pc = "turn"
    /\ LET d == ids_to_trackers[requests[r].user_id]
       IN  /\ trackers' = [trackers EXCEPT ![dsts[d].tracker] = update_state(@, slots)]
           /\ requests' = [requests EXCEPT ![r].updated = d, ![r].pc = "done"]
           /\ call' = Call(DstRef(d), "update_state")
           /\ ret' = RetNone
    /\ UNCHANGED <<dsts, ids_to_trackers>>

InitRace ==
    /\ trackers = <<>>
    /\ dsts = <<>>
    /\ ids_to_trackers = EmptyDict
    /\ call = Call(RegistryRef, "__init__")
    /\ ret = RetNone
    /\ requests \in [Requests -> {Request(u) : u \in Users}]

NextRace ==
    \/ \E r \in Requests : Request_check(r)
    \/ \E r \in Requests : Request_create(r)
    \/ \E r \in Requests, slots \in SessionSlots : Request_turn(r, slots)

SpecRace == InitRace /\ [][NextRace]_vars

---------------------------------------------------------------------------
(* One DialogueStateTracker in the policy loop: the loop calls its methods,
   reads its two size properties and writes its four continuity fields *)

RetInt(n) == [tag |-> "int", val |-> n]

\* what the loop stores: a one-hot action, a recurrent state, a database row
OneHot(n, i) == [j \in 1..n |-> IF j = i THEN 1 ELSE 0]
ones(n) == [j \in 1..n |-> 1]
Actions(n) == {OneHot(n, i) : i \in 1..n}
DbRows == {"row"}

DialogueStateTracker_state_size(self) == state_size(trackers[self.tracker])
\* a wrapper that reports the size of the state for the number of features
DialogueStateTracker_num_features_as_state_size(self) ==
    state_size(trackers[self.tracker])
DialogueStateTracker_num_features(self) == num_features(trackers[self.tracker])

\* d.state_size
Dst_state_size(d) ==
    /\ call' = Call(DstRef(d), "state_size")
    /\ ret' = RetInt(DialogueStateTracker_state_size(dsts[d]))
    /\ UNCHANGED <<trackers, dsts, ids_to_trackers, requests>>

\* d.num_features
Dst_num_features(d) ==
    /\ call' = Call(DstRef(d), "num_features")
    /\ ret' = RetInt(DialogueStateTracker_num_features(dsts[d]))
    /\ UNCHANGED <<trackers, dsts, ids_to_trackers, requests>>

\* d.update_state(slots) for one turn of the dialogue
Dst_turn(d, slots) ==
    /\ Len(trackers[dsts[d].tracker].history) < MaxSessionHist
    /\ Dst_update_state(d, slots)

SetAttr(d, dst) ==
    /\ dsts' = [dsts EXCEPT ![d] = dst]
    /\ call' = Call(DstRef(d), "__setattr__")
    /\ ret' = RetNone
    /\ UNCHANGED <<trackers, ids_to_trackers, requests>>

\* d.prev_action = a
Write_prev_action(d, a) == SetAttr(d, [dsts[d] EXCEPT !.prev_action = a])

\* d.network_state = (c, h)
Write_network_state(d, c, h) ==
    SetAttr(d, [dsts[d] EXCEPT !.network_state = << <<c>>, <<h>> >>])

\* d.db_result = row
Write_db_result(d, row) == SetAttr(d, [dsts[d] EXCEPT !.db_result = row])

\* d.current_db_result = row
Write_current_db_result(d, row) ==
    SetAttr(d, [dsts[d] EXCEPT !.current_db_result = row])

NextLoop ==
    \/ \E d \in DOMAIN dsts, slots \in SessionSlots : Dst_turn(d, slots)
    \/ \E d \in DOMAIN dsts : Dst_reset_state(d)
    \/ \E d \in DOMAIN dsts : Dst_get_state(d)
    \/ \E d \in DOMAIN dsts : Dst_get_features(d)
    \/ \E d \in DOMAIN dsts : Dst_state_size(d)
    \/ \E d \in DOMAIN dsts : Dst_num_features(d)
    \/ \E d \in DOMAIN dsts : \E a \in Actions(dsts[d].n_actions) :
            Write_prev_action(d, a)
    \/ \E d \in DOMAIN dsts :
            Write_network_state(d, ones(dsts[d].hidden_size),
                                   ones(dsts[d].hidden_size))
    \/ \E d \in DOMAIN dsts, row \in DbRows : Write_db_result(d, row)
    \/ \E d \in DOMAIN dsts, row \in DbRows : Write_current_db_result(d, row)

SpecLoop == Init /\ [][NextLoop]_vars

---------------------------------------------------------------------------
(* update_state with list entries that are not (name, value) pairs *)

\* the entry () of a list argument: it has no name component
EmptyEntry == <<>>
NoisyEntries == Entries \cup {EmptyEntry}
NoisyLists == {[type |-> "list", items |-> s] : s \in SeqsUpTo(NoisyEntries, MaxIn)}

RetError(name) == [tag |-> "error", val |-> name]

\* s[0] of the filter's lambda raises IndexError on ()
Raises(s) == s = EmptyEntry

\* the index of the first entry on which the lambda raises, 0 when none does
FirstRaising(slots) ==
    IF \E i \in 1..Len(slots) : Raises(slots[i])
    THEN CHOOSE i \in 1..Len(slots) :
            /\ Raises(slots[i])
            /\ \A j \in 1..(i - 1) : ~Raises(slots[j])
    ELSE 0

\* history.extend(filter(...)): filter is lazy, so extend has appended the
\* accepted entries that precede the raising one when the exception leaves it
DefaultTracker_update_state_raising(self, slots) ==
    LET i == FirstRaising(slots.items)
    IN  [self EXCEPT !.history = @ \o _filter(SubSeq(slots.items, 1, i - 1))]

\* the tracker after t.update_state(slots), and whether the call raised;
\* FeaturizedTracker.update_state starts with super().update_state(slots)
update_state_outcome(self, slots) ==
    IF slots.type = "list" /\ FirstRaising(slots.items) # 0
    THEN [self |-> DefaultTracker_update_state_raising(self, slots),
          raised |-> "IndexError"]
    ELSE [self |-> update_state(self, slots), raised |-> None]

\* t.update_state(slots) with a list that may hold an empty entry
Tracker_update_state_noisy(t, slots) ==
    LET outcome == update_state_outcome(trackers[t], slots)
    IN  /\ Len(trackers[t].history) + Len(slots.items) <= MaxHist
        /\ trackers' = [trackers EXCEPT ![t] = outcome.self]
        /\ call' = Call(TrackerRef(t), "update_state")
        /\ ret' = IF outcome.raised = None THEN RetRef(TrackerRef(t))
                  ELSE RetError(outcome.raised)
        /\ UNCHANGED <<dsts, ids_to_trackers, requests>>

NextNoisy ==
    \/ \E t \in DOMAIN trackers, slots \in NoisyLists :
            Tracker_update_state_noisy(t, slots)
    \/ \E t \in DOMAIN trackers : Tracker_reset_state(t)
    \/ \E t \in DOMAIN trackers : Tracker_get_state(t)
    \/ \E t \in DOMAIN trackers : Tracker_get_features(t)

SpecNoisy == Init /\ [][NextNoisy]_vars

---------------------------------------------------------------------------
(* Vocabulary of the properties *)

KnownNames == {slot_names[i] : i \in 1..Len(slot_names)}

\* the update_state arguments the model lets a tracker in state self take
Accepted(self) == {slots \in Slots : WithinHist(self, slots)}

\* positions of name n in a sequence of (name, value) entries
Occurrences(items, n) == {i \in 1..Len(items) : items[i][1] = n}
Last(S) == CHOOSE i \in S : \A j \in S : j <= i

\* the value of the rightmost occurrence of n
LastValue(items, n) == items[Last(Occurrences(items, n))][2]

\* the entries of items whose name is known, in the order of items
RECURSIVE KnownEntries(_)
KnownEntries(items) ==
    IF items = <<>> THEN <<>>
    ELSE IF Head(items)[1] \in KnownNames
         THEN <<Head(items)>> \o KnownEntries(Tail(items))
         ELSE KnownEntries(Tail(items))

IsPrefix(s, t) == Len(s) <= Len(t) /\ SubSeq(t, 1, Len(s)) = s

LastCallWas(ref, method) == call = Call(ref, method)

IsFeaturized(t) == trackers[t].cls = "FeaturizedTracker"

---------------------------------------------------------------------------
(* C1: last-write-wins.  In every reachable state of a tracker of either   *)
(* class the keys of get_state() are the names that occur in History and   *)
(* each key maps to the value of its rightmost occurrence; and any         *)
(* update_state call (list or dict) leaves every known name it mentions    *)
(* at the value of that name's last occurrence in the call, every name it  *)
(* does not mention as it was, while reset_state leaves no key.            *)
C1_LastWriteWins ==
    \A t \in DOMAIN trackers :
        LET self == trackers[t]
            state == get_state(self)
        IN  /\ DOMAIN state = {self.history[i][1] : i \in 1..Len(self.history)}
            /\ \A n \in DOMAIN state : state[n] = LastValue(self.history, n)
            /\ get_state(reset_state(self)) = EmptyDict
            /\ \A slots \in Accepted(self) :
                 LET after == get_state(update_state(self, slots))
                 IN  \A n \in Names :
                        IF n \in KnownNames /\ Occurrences(slots.items, n) # {}
                        THEN /\ n \in DOMAIN after
                             /\ after[n] = LastValue(slots.items, n)
                        ELSE /\ (n \in DOMAIN after) = (n \in DOMAIN state)
                             /\ n \in DOMAIN state => after[n] = state[n]

\* a slot was written twice with different values, another slot in between
C1_Witness ==
    \E t \in DOMAIN trackers :
        /\ LastCallWas(TrackerRef(t), "update_state")
        /\ \E i, j, k \in 1..Len(trackers[t].history) :
              LET h == trackers[t].history
              IN  /\ i < j /\ j < k
                  /\ h[i][1] = h[k][1] /\ h[i][2] # h[k][2]
                  /\ h[j][1] # h[i][1]
                  /\ get_state(trackers[t])[h[k][1]] = h[k][2]

(* C2: after reset_state() get_state() is empty and get_features() is the  *)
(* all-zero vector of num_features entries (K, or 3K+3 when featurized).   *)
C2_ResetClears ==
    \A t \in DOMAIN trackers :
        LastCallWas(TrackerRef(t), "reset_state") =>
            /\ get_state(trackers[t]) = EmptyDict
            /\ get_features(trackers[t]) = zeros(num_features(trackers[t]))

(* C3: in every reachable state the vector get_features() returns has      *)
(* num_features entries: K for DefaultTracker, 3K+3 for FeaturizedTracker. *)
C3_FixedDimension ==
    \A t \in DOMAIN trackers :
        /\ num_features(trackers[t]) =
              IF IsFeaturized(t) THEN 3 * K + 3 ELSE K
        /\ Len(get_features(trackers[t])) = num_features(trackers[t])

\* the argument with its unknown-name entries removed
WithoutUnknown(slots) ==
    [slots EXCEPT !.items = SelectSeq(@, LAMBDA s : s[1] \in KnownNames)]

(* C4: silent total filtering.  For every update_state call, the tracker   *)
(* ends as if the unknown-name entries had been removed from the argument, *)
(* and a call made only of unknown names leaves get_state() and            *)
(* get_features() as they were before the call.                            *)
C4_UnknownNamesChangeNothing ==
    /\ [](\A t \in DOMAIN trackers :
            \A slots \in Accepted(trackers[t]) :
                update_state(trackers[t], slots) =
                    update_state(trackers[t], WithoutUnknown(slots)))
    /\ [][\A t \in DOMAIN trackers :
            \* an update_state call none of whose entries was accepted
            (/\ call' = Call(TrackerRef(t), "update_state")
             /\ trackers'[t].history = trackers[t].history) =>
                /\ get_state(trackers'[t]) = get_state(trackers[t])
                /\ get_features(trackers'[t]) = get_features(trackers[t])]_vars

(* C5: binary presence features.  After an update_state call, entry i of   *)
(* get_features(), for i up to K, is 1 when the i-th configured slot is a  *)
(* key of get_state() and 0 otherwise.                                     *)
C5_BinaryPresence ==
    \A t \in DOMAIN trackers :
        LastCallWas(TrackerRef(t), "update_state") =>
            \A i \in 1..K :
                get_features(trackers[t])[i] =
                    IF slot_names[i] \in DOMAIN get_state(trackers[t]) THEN 1 ELSE 0

\* after an update, some configured slot is present and an earlier one absent
C5_Witness ==
    \E t \in DOMAIN trackers :
        /\ LastCallWas(TrackerRef(t), "update_state")
        /\ \E i, j \in 1..K :
              /\ i < j
              /\ get_features(trackers[t])[i] = 0
              /\ get_features(trackers[t])[j] = 1
              /\ slot_names[j] \in DOMAIN get_state(trackers[t])

\* the requests that have created a tracker for session user_id
Creators(user_id) ==
    {r \in Requests : requests[r].user_id = user_id /\ requests[r].created # 0}

\* the inner tracker object of the DialogueStateTracker stored under user_id
StoredTracker(user_id) == trackers[dsts[ids_to_trackers[user_id]].tracker]

(* C6: check-then-create is not atomic.  When two requests for one         *)
(* session id have both seen it absent and both created a tracker, two     *)
(* distinct trackers exist for that id, the map holds the one created      *)
(* last, the earlier one is stored under no id, and the History of the     *)
(* stored tracker holds only the updates applied to the stored tracker:    *)
(* an update a request applied to the replaced tracker is not in it.       *)
C6_RaceReplacesTracker ==
    \A r1, r2 \in Requests :
        (/\ requests[r1].user_id = requests[r2].user_id
         /\ requests[r1].created # 0
         /\ requests[r2].created # 0
         /\ requests[r1].created < requests[r2].created) =>
            LET u == requests[r1].user_id
                held == ids_to_trackers[u]
            IN  /\ ~requests[r1].seen /\ ~requests[r2].seen
                /\ \A r \in Creators(u) : requests[r].created <= held
                /\ \A v \in DOMAIN ids_to_trackers :
                      ids_to_trackers[v] # requests[r1].created
                /\ Len(StoredTracker(u).history) =
                      Cardinality({r \in Requests : requests[r].updated = held})

\* the first request updated the tracker it created, the second request then
\* replaced it: the stored tracker has an empty History, the update is lost
C6_Witness ==
    \E r1, r2 \in Requests :
        /\ requests[r1].user_id = requests[r2].user_id
        /\ requests[r1].created # 0
        /\ requests[r2].created # 0
        /\ requests[r1].updated = requests[r1].created
        /\ ids_to_trackers[requests[r1].user_id] = requests[r2].created
        /\ requests[r2].created # requests[r1].created
        /\ trackers[dsts[requests[r1].created].tracker].history # <<>>
        /\ get_state(StoredTracker(requests[r1].user_id)) = EmptyDict

(* C7: registry membership and overwrite.  check_new_user is false for     *)
(* every id on a fresh registry; an id once stored stays stored;           *)
(* check_new_user never changes the map; init_new_tracker stores a newly   *)
(* built tracker under its id and leaves the other ids' entries alone; and *)
(* when the id had an entry, neither the earlier tracker nor the History   *)
(* it accumulated can be reached through the registry any more.            *)
C7_MembershipAndOverwrite ==
    /\ \A u \in Users : ~check_new_user(u)
    /\ [][/\ \A u \in Users : check_new_user(u) => check_new_user(u)'
          /\ call'.method = "check_new_user" =>
                /\ ids_to_trackers' = ids_to_trackers
                /\ ret'.tag = "bool"
          /\ call'.method = "init_new_tracker" =>
                \E u \in Users :
                    /\ check_new_user(u)'
                    /\ Len(dsts') = Len(dsts) + 1
                    /\ ids_to_trackers'[u] = Len(dsts')
                    /\ \A v \in Users \ {u} :
                          /\ check_new_user(v)' = check_new_user(v)
                          /\ check_new_user(v) =>
                                ids_to_trackers'[v] = ids_to_trackers[v]
                    /\ check_new_user(u) =>
                          \A v \in DOMAIN ids_to_trackers' :
                              /\ ids_to_trackers'[v] # ids_to_trackers[u]
                              /\ StoredTracker(u).history # <<>> =>
                                    dsts'[ids_to_trackers'[v]].tracker #
                                        dsts[ids_to_trackers[u]].tracker]_vars

(* C8: update_state returns the tracker it was called on, for each of      *)
(* DefaultTracker, FeaturizedTracker and DialogueStateTracker.             *)
C8_UpdateReturnsSelf ==
    call.method = "update_state" => ret = RetRef(call.self)

C10_DiffReportsChange ==
    [][\A t \in DOMAIN trackers :
          (IsFeaturized(t) /\ call' = Call(TrackerRef(t), "update_state")) =>
              LET before == get_state(trackers[t])
                  after == get_state(trackers'[t])
                  feats == get_features(trackers'[t])
                  Changed == {i \in 1..K :
                                 /\ slot_names[i] \in DOMAIN before
                                 /\ slot_names[i] \in DOMAIN after
                                 /\ before[slot_names[i]] # after[slot_names[i]]}
              IN  /\ \A i \in 1..K : feats[K + i] = IF i \in Changed THEN 1 ELSE 0
                  /\ feats[3 * K + 2] = Cardinality(Changed)]_vars

(* C11: DialogueStateTracker.reset_state, called in any state the loop can
   reach (after any turns and any writes to prev_action, network_state,
   db_result and current_db_result), leaves the inner tracker as it was
   right after construction (empty History, features reset) and the four
   continuity fields at their construction values: prev_action a zero
   vector of length n_actions, network_state a pair of zero rows of width
   hidden_size, db_result and current_db_result None. *)
C11_ResetRestoresConstruction ==
    [][\A d \in DOMAIN dsts :
          call' = Call(DstRef(d), "reset_state") =>
              LET self == dsts'[d]
                  inner == trackers'[self.tracker]
              IN  /\ inner.history = <<>>
                  /\ inner.curr_feats = zeros(state_size(inner))
                  /\ inner = DefaultTracker_init(inner.cls)
                  /\ self.prev_action = zeros(self.n_actions)
                  /\ Len(self.prev_action) = NActions
                  /\ self.network_state =
                        << <<zeros(HiddenSize)>>, <<zeros(HiddenSize)>> >>
                  /\ self.db_result = None
                  /\ self.current_db_result = None
                  /\ self = DialogueStateTracker_init(self.tracker, NActions,
                                                     HiddenSize)]_vars

\* a DialogueStateTracker with turns taken and every continuity field written
C11_Witness ==
    \E d \in DOMAIN dsts :
        /\ trackers[dsts[d].tracker].history # <<>>
        /\ trackers[dsts[d].tracker].curr_feats
              # zeros(state_size(trackers[dsts[d].tracker]))
        /\ dsts[d].prev_action \in Actions(NActions)
        /\ dsts[d].network_state = << <<ones(HiddenSize)>>, <<ones(HiddenSize)>> >>
        /\ dsts[d].db_result \in DbRows
        /\ dsts[d].current_db_result \in DbRows

(* C12: DialogueStateTracker only delegates: what its get_state,
   get_features, state_size and num_features return is what the inner
   tracker's return in that state, and its update_state changes the inner
   tracker only: prev_action, network_state, db_result and
   current_db_result (and every other tracker) stay as they were. *)
C12_WrapperDelegates ==
    /\ [](\A d \in DOMAIN dsts :
            LET inner == trackers[dsts[d].tracker]
            IN  /\ LastCallWas(DstRef(d), "get_state") =>
                        ret = RetDict(get_state(inner))
                /\ LastCallWas(DstRef(d), "get_features") =>
                        ret = RetArray(get_features(inner))
                /\ LastCallWas(DstRef(d), "state_size") =>
                        ret = RetInt(state_size(inner))
                /\ LastCallWas(DstRef(d), "num_features") =>
                        ret = RetInt(num_features(inner)))
    /\ [][\A d \in DOMAIN dsts :
            call' = Call(DstRef(d), "update_state") =>
                /\ dsts' = dsts
                /\ dsts'[d].prev_action = dsts[d].prev_action
                /\ dsts'[d].network_state = dsts[d].network_state
                /\ dsts'[d].db_result = dsts[d].db_result
                /\ dsts'[d].current_db_result = dsts[d].current_db_result
                /\ \A t \in DOMAIN trackers :
                        t # dsts[d].tracker => trackers'[t] = trackers[t]
                /\ \E slots \in SessionSlots :
                        trackers'[dsts[d].tracker] =
                            update_state(trackers[dsts[d].tracker], slots)]_vars

\* update_state through the wrapper has just changed the inner tracker of a
\* DialogueStateTracker whose four continuity fields had all been written
C12_Witness ==
    \E d \in DOMAIN dsts :
        /\ LastCallWas(DstRef(d), "update_state")
        /\ Len(trackers[dsts[d].tracker].history) > 1
        /\ dsts[d].prev_action \in Actions(NActions)
        /\ dsts[d].network_state # << <<zeros(HiddenSize)>>, <<zeros(HiddenSize)>> >>
        /\ dsts[d].db_result \in DbRows
        /\ dsts[d].current_db_result \in DbRows

(* C13: History is append-only between resets and keeps the order of
   arrival.  Every update_state call leaves the previous History as a
   prefix and appends exactly the entries of its argument that have a known
   name, in the argument's order; a dict argument leaves the tracker
   (History, get_state, features) as the list of its items in iteration
   order does; and only a reset_state step makes History shorter. *)
C13_HistoryAppendOnly ==
    /\ [](\A t \in DOMAIN trackers :
            LET self == trackers[t]
            IN  \A slots \in Accepted(self) :
                    LET after == update_state(self, slots)
                    IN  /\ after.history
                              = self.history \o KnownEntries(slots.items)
                        /\ slots.type = "dict" =>
                              after = update_state(self,
                                  [type |-> "list", items |-> slots.items]))
    /\ [][\A t \in DOMAIN trackers :
            /\ call' = Call(TrackerRef(t), "update_state") =>
                    IsPrefix(trackers[t].history, trackers'[t].history)
            /\ ~IsPrefix(trackers[t].history, trackers'[t].history) =>
                    /\ call' = Call(TrackerRef(t), "reset_state")
                    /\ trackers'[t].history = <<>>]_vars

\* the History ends with the known entries of a dict that also carries an
\* unknown name, in their iteration order, after earlier entries
C13_Witness ==
    \E t \in DOMAIN trackers :
        /\ LastCallWas(TrackerRef(t), "update_state")
        /\ \E slots \in Dicts :
              /\ Len(slots.items) > Len(KnownEntries(slots.items))
              /\ Len(KnownEntries(slots.items)) > 0
              /\ Len(trackers[t].history) > Len(KnownEntries(slots.items))
              /\ SubSeq(trackers[t].history,
                        Len(trackers[t].history)
                            - Len(KnownEntries(slots.items)) + 1,
                        Len(trackers[t].history))
                    = KnownEntries(slots.items)

(* C14: get_state and get_features only read.  A step of either leaves
   History and the stored feature vector of every tracker as they were,
   get_features returns the stored vector, and a get_state call that
   follows a get_state call on the same tracker, with no update_state or
   reset_state in between, returns an equal dict. *)
C14_ReadsChangeNothing ==
    /\ [](\A t \in DOMAIN trackers :
            /\ LastCallWas(TrackerRef(t), "get_state") =>
                    ret = RetDict(get_state(trackers[t]))
            /\ LastCallWas(TrackerRef(t), "get_features") =>
                    ret = RetArray(trackers[t].curr_feats))
    /\ [][\A t \in DOMAIN trackers :
            /\ call'.self = TrackerRef(t)
                    /\ call'.method \in {"get_state", "get_features"} =>
                    /\ trackers'[t].history = trackers[t].history
                    /\ trackers'[t].curr_feats = trackers[t].curr_feats
                    /\ trackers' = trackers
            /\ LastCallWas(TrackerRef(t), "get_state")
                    /\ call' = Call(TrackerRef(t), "get_state") =>
                    ret' = ret]_vars

\* get_state has returned two slots of a tracker that holds a History of
\* more than two entries
C14_Witness ==
    \E t \in DOMAIN trackers :
        /\ LastCallWas(TrackerRef(t), "get_state")
        /\ ret.tag = "dict"
        /\ Cardinality(DOMAIN ret.val) = 2
        /\ Len(trackers[t].history) > 2

(* C15: update_state never raises, whatever its argument: for every list,
   also one with an entry that is not a (name, value) pair such as the
   empty entry (), and for unknown names, the call returns normally and
   leaves the tracker valid, its feature vector starting with the binary
   presence features of its History. *)
C15_UpdateNeverRaises ==
    \A t \in DOMAIN trackers :
        LastCallWas(TrackerRef(t), "update_state") =>
            /\ ret.tag # "error"
            /\ SubSeq(trackers[t].curr_feats, 1, K)
                  = _binary_features(trackers[t])

(* C16: layout of the FeaturizedTracker vector.  After every update_state
   call the vector has 3K+3 entries: the binary presence block at 0..K-1,
   the diff block at K..2K-1, the novelty block at 2K..3K-1 (each entry 0
   or 1), then the sum of the binary block, the sum of the diff block and
   the sum of the novelty block; entry 3K is the number of known slots that
   are keys of get_state().  (Sequences count from 1.) *)
C16_FeaturizedLayout ==
    \A t \in DOMAIN trackers :
        LastCallWas(TrackerRef(t), "update_state") /\ IsFeaturized(t) =>
            LET self == trackers[t]
                vec == get_features(self)
                binary == SubSeq(vec, 1, K)
                diff == SubSeq(vec, K + 1, 2 * K)
                novelty == SubSeq(vec, 2 * K + 1, 3 * K)
            IN  /\ Len(vec) = 3 * K + 3
                /\ binary = _binary_features(self)
                /\ \A i \in 1..K : diff[i] \in {0, 1} /\ novelty[i] \in {0, 1}
                /\ vec[3 * K + 1] = np_sum(binary)
                /\ vec[3 * K + 2] = np_sum(diff)
                /\ vec[3 * K + 3] = np_sum(novelty)
                /\ vec[3 * K + 1]
                      = Cardinality(DOMAIN get_state(self) \cap KnownNames)
                /\ vec = binary \o diff \o novelty
                      \o <<np_sum(binary), np_sum(diff), np_sum(novelty)>>

\* a FeaturizedTracker after an update_state call, with one slot present and
\* one absent: the binary block is not uniform and its sum is 1
C16_Witness ==
    \E t \in DOMAIN trackers :
        /\ LastCallWas(TrackerRef(t), "update_state")
        /\ IsFeaturized(t)
        /\ Len(trackers[t].history) > 1
        /\ get_features(trackers[t])[1] = 0
        /\ get_features(trackers[t])[K] = 1
        /\ get_features(trackers[t])[3 * K + 1] = 1

(* C17: sessions are isolated.  For two distinct ids that both have an
   entry made by init_new_tracker, an update_state or reset_state call on
   the tracker stored under one id leaves get_state() and get_features()
   of the tracker stored under the other id as they were, also when both
   entries were built from the same inner tracker object. *)
C17_SessionIsolation ==
    [][\A u \in Users : \A v \in Users \ {u} :
          /\ check_new_user(u) /\ check_new_user(v)
          /\ call'.self = DstRef(ids_to_trackers[u])
          /\ call'.method \in {"update_state", "reset_state"}
          => /\ get_state(StoredTracker(v))' = get_state(StoredTracker(v))
             /\ get_features(StoredTracker(v))'
                   = get_features(StoredTracker(v))]_vars

(* C18: slot presence is monotone between resets.  A name that is a key of
   get_state() is still a key after any later update_state call (its value
   may change), a binary feature that is 1 stays 1, and the only step after
   which a key is missing is reset_state: no update deletes a slot. *)
C18_PresenceMonotone ==
    [][\A t \in DOMAIN trackers :
          LET before == get_state(trackers[t])
              after == get_state(trackers'[t])
          IN  /\ call' = Call(TrackerRef(t), "update_state") =>
                    /\ DOMAIN before \subseteq DOMAIN after
                    /\ \A i \in 1..K :
                          /\ _binary_features(trackers[t])[i]
                                <= _binary_features(trackers'[t])[i]
                          /\ get_features(trackers[t])[i]
                                <= get_features(trackers'[t])[i]
              /\ ~(DOMAIN before \subseteq DOMAIN after) =>
                    call' = Call(TrackerRef(t), "reset_state")]_vars

\* an update_state call has rewritten a slot that was present, next to
\* another present slot: both are keys, the History holds three entries
C18_Witness ==
    \E t \in DOMAIN trackers :
        /\ LastCallWas(TrackerRef(t), "update_state")
        /\ Len(trackers[t].history) = 3
        /\ trackers[t].history[1][1] = trackers[t].history[3][1]
        /\ trackers[t].history[1][2] # trackers[t].history[3][2]
        /\ DOMAIN get_state(trackers[t]) = KnownNames
        /\ \A i \in 1..K : get_features(trackers[t])[i] = 1

(* C19: in every reachable state of a tracker of either class every entry
   of History has a known slot name, so the keys of get_state() are a
   subset of the known names and there are at most K of them. *)
C19_OnlyKnownNames ==
    \A t \in DOMAIN trackers :
        LET self == trackers[t]
        IN  /\ \A i \in 1..Len(self.history) :
                  \E j \in 1..Len(slot_names) :
                      self.history[i][1] = slot_names[j]
            /\ DOMAIN get_state(self) \subseteq KnownNames
            /\ Cardinality(DOMAIN get_state(self)) <= K
            /\ Cardinality(KnownNames) = K

\* a History filled to the model's bound by update_state calls, with every
\* known slot a key
C19_Witness ==
    \E t \in DOMAIN trackers :
        /\ LastCallWas(TrackerRef(t), "update_state")
        /\ Len(trackers[t].history) = MaxHist
        /\ Cardinality(DOMAIN get_state(trackers[t])) = K

====
